---- MODULE Spec2Model ----
(***************************************************************************)
(* Model of cmd/bosun/conf/notify.go: the notification dispatcher          *)
(* (Notify), the email channel (DoEmail), the message hand-off (Send), the *)
(* SMTP session driver (SendMail) and the POST, GET and print channels     *)
(* (DoPost, DoGet, DoPrint).                                               *)
(*                                                                         *)
(* Notify call k starts up to four goroutines, all indexed by k.  An email *)
(* task walks through Send and then                                        *)
(* through SendMail one call on the smtp client at a time; the relay's     *)
(* answer to each call is a nondeterministic choice.                       *)
(*                                                                         *)
(* The smtp client is Go's net/smtp.  Two documented effects of that       *)
(* package on the connection are part of the model:                        *)
(*   Client.Quit  "sends the QUIT command and closes the connection",      *)
(*   Client.Auth  "A failed authentication closes the connection."         *)
(***************************************************************************)
EXTENDS Integers, Sequences, FiniteSets, TLC

\* ------------------------------------------------------------------ bounds
MaxList == 1        \* longest To, Cc and Bcc list of a message given to Send
MaxNotify == 2      \* number of Notify calls of one run

\* ------------------------------------------------------------- input sets
Tasks == 1..MaxNotify

\* e.From values: missing, a display-name form, a plain address, bad syntax
Froms == {"", "Bosun <a@x.com>", "nobody"}

\* recipient addresses: one well-formed, one that is not mail-address syntax
Addrs == {"b@y.com", "nobody"}

Usernames == {"", "u"}

Passwords == {"", "p"}

SeqsUpTo(S, n) == UNION {[1..k -> S] : k \in 0..n}

\* ------------------------------------------------------------------ state
VARIABLES
    conf,       \* *Conf: EmailFrom, SMTPUsername, SMTPPassword
    notif,      \* notif[k]: the Notification n that call k of Notify is made on
    calls,      \* number of Notify calls made so far
    launched,   \* launched[k]: the channels whose goroutine call k started
    pc,         \* pc[t]: position of email task t
    email,      \* email[t]: the *email.Email e handed to Send
    args,       \* args[t]: username and password handed to Send
    sess,       \* sess[t]: locals of SendMail and the state of its connection
    result,     \* result[t]: the error value Send returned ("none": not yet)
    counters,   \* the collect counters email.sent and email.sent_failed
    outcome,    \* outcome[t]: the log line DoEmail ended with
    post,       \* post[k]: the DoPost goroutine of call k
    get,        \* get[k]: the DoGet goroutine of call k
    console     \* console[k]: the DoPrint goroutine of call k

\* the goroutines of the channels other than email
chanVars == <<post, get, console>>

vars == <<conf, notif, calls, launched, pc, email, args, sess, result,
          counters, outcome, post, get, console>>

NoEmail == [From |-> "", To |-> <<>>, Cc |-> <<>>, Bcc |-> <<>>]

NoArgs == [username |-> "", password |-> ""]

\* SendMail not entered: no connection, nothing done on it
NoSession ==
    [from |-> "", to |-> <<>>, raw |-> <<>>,
     dialed |-> FALSE, connOpen |-> FALSE, closes |-> 0,
     starttls |-> "unasked", tls |-> FALSE, auth |-> "none",
     next |-> 1, written |-> <<>>, err |-> "none", trace |-> <<>>]

\* one call SendMail made on the smtp package or client, and how it ended
Event(op, arg, ok) == [op |-> op, arg |-> arg, ok |-> ok]

Log(s, op, arg, ok) == [s EXCEPT !.trace = Append(@, Event(op, arg, ok))]

\* --------------------------------------------------------- pure functions

\* net/mail ParseAddress on the addresses of the model: "Name <addr>" and
\* "addr" parse to addr, anything else is an error
ParseAddress(a) ==
    CASE a = "Bosun <a@x.com>" -> [err |-> "nil", Address |-> "a@x.com"]
      [] a \in {"a@x.com", "b@y.com"} -> [err |-> "nil", Address |-> a]
      [] OTHER -> [err |-> "ErrParseAddress", Address |-> ""]

\* faulty variant: the blind copies are appended before the copies
MergeRecipientsBccBeforeCc(e) == (e.To \o e.Bcc) \o e.Cc

\* Send: to = append(append(append(to, e.To...), e.Cc...), e.Bcc...)
MergeRecipients(e) == (e.To \o e.Cc) \o e.Bcc

\* faulty variant: both missing instead of either
MissingFromOrToAnd(e, to) == e.From = "" /\ Len(to) = 0

\* Send: e.From == "" || len(to) == 0
MissingFromOrTo(e, to) == e.From = "" \/ Len(to) = 0

\* e.Bytes(): the message as transmitted; Bcc is no header of it
Bytes(e) == <<[From |-> e.From, To |-> e.To, Cc |-> e.Cc]>>

\* faulty variant: both given instead of either
HasCredentialsAnd(username, password) == username # "" /\ password # ""

\* SendMail: len(username) > 0 || len(password) > 0
HasCredentials(username, password) == username # "" \/ password # ""

\* what the relay can answer: a call on a closed connection can only fail
Outcomes(s) == IF s.connOpen THEN BOOLEAN ELSE {FALSE}

\* faulty variant: no Close is deferred
DeferredCloseLeak(s) == s

\* defer c.Close(): runs on every return after Dial succeeded; the Close
\* of an already closed connection reports an error, which is dropped
DeferredClose(s) ==
    [Log(s, "Close", "", s.connOpen) EXCEPT !.connOpen = FALSE, !.closes = @ + 1]

\* faulty variant: a Quit that leaves the connection open
QuitClosesNot(s) == s

\* net/smtp Client.Quit after the relay accepted QUIT: closes the connection
QuitCloses(s) == [s EXCEPT !.connOpen = FALSE, !.closes = @ + 1]

\* net/smtp Client.Auth after a failed authentication: closes the connection
AuthFailureCloses(s) == [s EXCEPT !.connOpen = FALSE, !.closes = @ + 1]

\* return err with the deferred Close pending
Fail(s, e) == [s EXCEPT !.err = e]

\* init: the two counters registered with metadata.AddMetricMeta
Metrics == {"email.sent", "email.sent_failed"}

\* collect.Add(metric, nil, inc): one atomic addition to the named counter
CollectAdd(c, metric, inc) == [c EXCEPT ![metric] = @ + inc]

\* ---------------------------------------------------------------- Send

\* Send, up to its call of SendMail
Send(t) ==
    /\ pc[t] = "Send"
    /\ LET e == email[t]
           to == MergeRecipients(e)
           from == ParseAddress(e.From)
       IN  IF MissingFromOrTo(e, to)
           THEN /\ result' = [result EXCEPT ![t] = "ErrMissingFromOrTo"]
                /\ pc' = [pc EXCEPT ![t] = "Returned"]
                /\ UNCHANGED sess
           ELSE IF from.err # "nil"
           THEN /\ result' = [result EXCEPT ![t] = from.err]
                /\ pc' = [pc EXCEPT ![t] = "Returned"]
                /\ UNCHANGED sess
           ELSE \E bytesOk \in BOOLEAN :
                  IF ~bytesOk
                  THEN /\ result' = [result EXCEPT ![t] = "ErrBytes"]
                       /\ pc' = [pc EXCEPT ![t] = "Returned"]
                       /\ UNCHANGED sess
                  ELSE /\ sess' = [sess EXCEPT ![t] =
                                     [NoSession EXCEPT !.from = from.Address,
                                                       !.to = to,
                                                       !.raw = Bytes(e)]]
                       /\ pc' = [pc EXCEPT ![t] = "Dial"]
                       /\ UNCHANGED result
    /\ UNCHANGED <<chanVars, conf, notif, calls, launched, email, args, counters, outcome>>

\* ------------------------------------------------------------- SendMail

\* task t moves to position p with session state s; nothing is returned yet
Step(t, s, p) ==
    /\ sess' = [sess EXCEPT ![t] = s]
    /\ pc' = [pc EXCEPT ![t] = p]
    /\ UNCHANGED <<chanVars, conf, notif, calls, launched, email, args, result,
                   counters, outcome>>

\* c, err := smtp.Dial(addr); on error return err (no Close is deferred yet)
Dial(t) ==
    /\ pc[t] = "Dial"
    /\ \E ok \in BOOLEAN :
         IF ok
         THEN Step(t, [Log(sess[t], "Dial", "", TRUE)
                         EXCEPT !.dialed = TRUE, !.connOpen = TRUE], "Hello")
         ELSE /\ sess' = [sess EXCEPT ![t] = Log(@, "Dial", "", FALSE)]
              /\ result' = [result EXCEPT ![t] = "ErrDial"]
              /\ pc' = [pc EXCEPT ![t] = "Returned"]
              /\ UNCHANGED <<chanVars, conf, notif, calls, launched, email, args,
                             counters, outcome>>

\* c.Hello("localhost")
Hello(t) ==
    /\ pc[t] = "Hello"
    /\ \E ok \in Outcomes(sess[t]) :
         LET s == Log(sess[t], "Hello", "localhost", ok)
         IN  IF ok THEN Step(t, s, "Extension")
                   ELSE Step(t, Fail(s, "ErrHello"), "Close")

\* faulty variant: the credentials test moved out of the STARTTLS branch
ExtensionAuthWithoutTLS(t) ==
    /\ pc[t] = "Extension"
    /\ \E adv \in BOOLEAN :
         Step(t, [sess[t] EXCEPT !.starttls = IF adv THEN "yes" ELSE "no"],
              IF adv THEN "StartTLS"
              ELSE IF HasCredentials(args[t].username, args[t].password)
                   THEN "Auth" ELSE "Mail")

\* if ok, _ := c.Extension("STARTTLS"); ok { ... }: without the extension
\* the whole block, authentication included, is skipped
Extension(t) ==
    /\ pc[t] = "Extension"
    /\ \E adv \in BOOLEAN :
         Step(t, [sess[t] EXCEPT !.starttls = IF adv THEN "yes" ELSE "no"],
              IF adv THEN "StartTLS" ELSE "Mail")

\* c.StartTLS(...); then the test on username and password
StartTLS(t) ==
    /\ pc[t] = "StartTLS"
    /\ \E ok \in Outcomes(sess[t]) :
         LET s == Log(sess[t], "StartTLS", "", ok)
         IN  IF ok
             THEN Step(t, [s EXCEPT !.tls = TRUE],
                       IF HasCredentials(args[t].username, args[t].password)
                       THEN "Auth" ELSE "Mail")
             ELSE Step(t, Fail(s, "ErrStartTLS"), "Close")

\* c.Auth(auth): the error it returns is dropped
Auth(t) ==
    /\ pc[t] = "Auth"
    /\ \E ok \in Outcomes(sess[t]) :
         LET s == Log(sess[t], "Auth", args[t].username, ok)
         IN  IF ok
             THEN Step(t, [s EXCEPT !.auth = "ok"], "Mail")
             ELSE Step(t, AuthFailureCloses([s EXCEPT !.auth = "failed"]), "Mail")

\* c.Mail(from)
Mail(t) ==
    /\ pc[t] = "Mail"
    /\ \E ok \in Outcomes(sess[t]) :
         LET s == Log(sess[t], "Mail", sess[t].from, ok)
         IN  IF ok
             THEN Step(t, s, IF s.next > Len(s.to) THEN "Data" ELSE "Rcpt")
             ELSE Step(t, Fail(s, "ErrMail"), "Close")

\* faulty variant: a rejected recipient is skipped and the loop goes on
RcptSkipRejected(t) ==
    /\ pc[t] = "Rcpt"
    /\ \E ok \in Outcomes(sess[t]) :
         LET s == [Log(sess[t], "Rcpt", sess[t].to[sess[t].next], ok)
                     EXCEPT !.next = @ + 1]
         IN  Step(t, s, IF s.next > Len(s.to) THEN "Data" ELSE "Rcpt")

\* one round of: for _, addr := range to { c.Rcpt(addr) }
Rcpt(t) ==
    /\ pc[t] = "Rcpt"
    /\ \E ok \in Outcomes(sess[t]) :
         LET s == Log(sess[t], "Rcpt", sess[t].to[sess[t].next], ok)
         IN  IF ok
             THEN Step(t, [s EXCEPT !.next = @ + 1],
                       IF s.next + 1 > Len(s.to) THEN "Data" ELSE "Rcpt")
             ELSE Step(t, Fail(s, "ErrRcpt"), "Close")

\* w, err := c.Data()
Data(t) ==
    /\ pc[t] = "Data"
    /\ \E ok \in Outcomes(sess[t]) :
         LET s == Log(sess[t], "Data", "", ok)
         IN  IF ok THEN Step(t, s, "Write")
                   ELSE Step(t, Fail(s, "ErrData"), "Close")

\* faulty variant: the error of w.Write is not tested
WriteIgnoreError(t) ==
    /\ pc[t] = "Write"
    /\ \E ok \in Outcomes(sess[t]) :
         LET s == Log(sess[t], "Write", "", ok)
         IN  Step(t, IF ok THEN [s EXCEPT !.written = s.raw] ELSE s, "WClose")

\* _, err = w.Write(msg)
Write(t) ==
    /\ pc[t] = "Write"
    /\ \E ok \in Outcomes(sess[t]) :
         LET s == Log(sess[t], "Write", "", ok)
         IN  IF ok THEN Step(t, [s EXCEPT !.written = s.raw], "WClose")
                   ELSE Step(t, Fail(s, "ErrWrite"), "Close")

\* faulty variant: the error of w.Close is not tested
WCloseIgnoreError(t) ==
    /\ pc[t] = "WClose"
    /\ \E ok \in Outcomes(sess[t]) :
         Step(t, Log(sess[t], "WClose", "", ok), "Quit")

\* err = w.Close()
WClose(t) ==
    /\ pc[t] = "WClose"
    /\ \E ok \in Outcomes(sess[t]) :
         LET s == Log(sess[t], "WClose", "", ok)
         IN  IF ok THEN Step(t, s, "Quit")
                   ELSE Step(t, Fail(s, "ErrWClose"), "Close")

\* faulty variant: c.Quit() is called and nil is returned whatever it says
QuitIgnoreError(t) ==
    /\ pc[t] = "Quit"
    /\ \E ok \in Outcomes(sess[t]) :
         LET s == Fail(Log(sess[t], "Quit", "", ok), "nil")
         IN  Step(t, IF ok THEN QuitCloses(s) ELSE s, "Close")

\* return c.Quit()
Quit(t) ==
    /\ pc[t] = "Quit"
    /\ \E ok \in Outcomes(sess[t]) :
         LET s == Log(sess[t], "Quit", "", ok)
         IN  IF ok THEN Step(t, QuitCloses(Fail(s, "nil")), "Close")
                   ELSE Step(t, Fail(s, "ErrQuit"), "Close")

\* the deferred c.Close() runs, then SendMail, and with it Send, returns
Close(t) ==
    /\ pc[t] = "Close"
    /\ sess' = [sess EXCEPT ![t] = DeferredClose(@)]
    /\ result' = [result EXCEPT ![t] = sess[t].err]
    /\ pc' = [pc EXCEPT ![t] = "Returned"]
    /\ UNCHANGED <<chanVars, conf, notif, calls, launched, email, args, counters, outcome>>

\* ----------------------------------------------- specification of one Send

Emails ==
    {[From |-> f, To |-> to, Cc |-> cc, Bcc |-> bcc] :
        f \in Froms, to \in SeqsUpTo(Addrs, MaxList),
        cc \in SeqsUpTo(Addrs, MaxList), bcc \in SeqsUpTo(Addrs, MaxList)}

NoConf == [EmailFrom |-> "", SMTPUsername |-> "", SMTPPassword |-> ""]

\* a Notification with no channel configured
NoNotification ==
    [Email |-> <<>>, Post |-> FALSE, Get |-> FALSE, PrintFlag |-> FALSE,
     UseBody |-> FALSE, UseFullContext |-> FALSE, Body |-> "nil",
     ContentType |-> "application/json"]

\* a DoPost goroutine that was not started
NoPost ==
    [pc |-> "none", execErr |-> "none", request |-> <<>>, status |-> 0,
     log |-> "none"]

\* a DoGet goroutine that was not started
NoGet == [pc |-> "none", requests |-> 0, log |-> "none"]

\* a DoPrint goroutine that was not started
NoPrint == [pc |-> "none", payload |-> "", line |-> "none"]

\* one caller has entered Send(e, addr, username, password)
Init ==
    /\ conf = NoConf
    /\ notif = [k \in Tasks |-> NoNotification]
    /\ calls = MaxNotify
    /\ launched = [k \in Tasks |-> {}]
    /\ pc = [t \in Tasks |-> IF t = 1 THEN "Send" ELSE "idle"]
    /\ \E e \in Emails : email = [t \in Tasks |-> IF t = 1 THEN e ELSE NoEmail]
    /\ \E u \in Usernames, p \in Passwords :
         args = [t \in Tasks |-> IF t = 1 THEN [username |-> u, password |-> p]
                                          ELSE NoArgs]
    /\ sess = [t \in Tasks |-> NoSession]
    /\ result = [t \in Tasks |-> "none"]
    /\ counters = [m \in Metrics |-> 0]
    /\ outcome = [t \in Tasks |-> "none"]
    /\ post = [k \in Tasks |-> NoPost]
    /\ get = [k \in Tasks |-> NoGet]
    /\ console = [k \in Tasks |-> NoPrint]

Next ==
    \E t \in Tasks :
        \/ Send(t)
        \/ Dial(t) \/ Hello(t) \/ Extension(t) \/ StartTLS(t) \/ Auth(t)
        \/ Mail(t) \/ Rcpt(t) \/ Data(t) \/ Write(t) \/ WClose(t) \/ Quit(t)
        \/ Close(t)

Spec == Init /\ [][Next]_vars

\* ------------------------------------------------------ Notify and DoEmail

\* the goroutines one Notify call on n starts
Channels(n) ==
    (IF Len(n.Email) > 0 THEN {"email"} ELSE {})
        \cup (IF n.Post THEN {"post"} ELSE {})
        \cup (IF n.Get THEN {"get"} ELSE {})
        \cup (IF n.PrintFlag THEN {"print"} ELSE {})

\* the incident st that is reported
St == [Subject |-> "subj", Body |-> "body", AlertKey |-> "ak"]

\* Notify: the argument of DoPrint
PrintPayload(n, st) ==
    IF n.UseBody THEN "Subject: " \o st.Subject \o ", Body: " \o st.Body
                 ELSE st.Subject

\* faulty variant: the GET goroutine is started on the POST condition
NotifyGetOnPost ==
    /\ calls < MaxNotify
    /\ LET k == calls + 1
           n == notif[k]
       IN  /\ calls' = k
           /\ launched' = [launched EXCEPT ![k] =
                              (Channels(n) \ {"get"})
                                  \cup (IF n.Post THEN {"get"} ELSE {})]
           /\ pc' = [pc EXCEPT ![k] =
                       IF Len(n.Email) > 0 THEN "DoEmail" ELSE "idle"]
           /\ post' = [post EXCEPT ![k].pc = IF n.Post THEN "DoPost" ELSE "none"]
           /\ get' = [get EXCEPT ![k].pc = IF n.Post THEN "DoGet" ELSE "none"]
           /\ console' = [console EXCEPT ![k] =
                            IF n.PrintFlag
                            THEN [NoPrint EXCEPT !.pc = "DoPrint",
                                                 !.payload = PrintPayload(n, St)]
                            ELSE NoPrint]
    /\ UNCHANGED <<conf, notif, email, args, sess, result, counters, outcome>>

\* faulty variant: the channels are called, not started as goroutines, so
\* that a call of Notify returns only when its channels have ended
NotifySynchronous ==
    /\ calls < MaxNotify
    /\ \A j \in 1..calls :
         /\ pc[j] \in {"idle", "Done"}
         /\ post[j].pc \in {"none", "Done"}
         /\ get[j].pc \in {"none", "Done"}
         /\ console[j].pc \in {"none", "Done"}
    /\ LET k == calls + 1
           n == notif[k]
       IN  /\ calls' = k
           /\ launched' = [launched EXCEPT ![k] = Channels(n)]
           /\ pc' = [pc EXCEPT ![k] =
                       IF Len(n.Email) > 0 THEN "DoEmail" ELSE "idle"]
           /\ post' = [post EXCEPT ![k].pc = IF n.Post THEN "DoPost" ELSE "none"]
           /\ get' = [get EXCEPT ![k].pc = IF n.Get THEN "DoGet" ELSE "none"]
           /\ console' = [console EXCEPT ![k] =
                            IF n.PrintFlag
                            THEN [NoPrint EXCEPT !.pc = "DoPrint",
                                                 !.payload = PrintPayload(n, St)]
                            ELSE NoPrint]
    /\ UNCHANGED <<conf, notif, email, args, sess, result, counters, outcome>>

\* n.Notify(st, c): call k starts one goroutine per configured channel and
\* returns; it waits for none of them
Notify ==
    /\ calls < MaxNotify
    /\ LET k == calls + 1
           n == notif[k]
       IN  /\ calls' = k
           /\ launched' = [launched EXCEPT ![k] = Channels(n)]
           /\ pc' = [pc EXCEPT ![k] =
                       IF Len(n.Email) > 0 THEN "DoEmail" ELSE "idle"]
           /\ post' = [post EXCEPT ![k].pc = IF n.Post THEN "DoPost" ELSE "none"]
           /\ get' = [get EXCEPT ![k].pc = IF n.Get THEN "DoGet" ELSE "none"]
           /\ console' = [console EXCEPT ![k] =
                            IF n.PrintFlag
                            THEN [NoPrint EXCEPT !.pc = "DoPrint",
                                                 !.payload = PrintPayload(n, St)]
                            ELSE NoPrint]
    /\ UNCHANGED <<conf, notif, email, args, sess, result, counters, outcome>>

\* DoEmail up to its call of Send: e.From = c.EmailFrom, e.To = the
\* addresses of n.Email, credentials from c
DoEmail(t) ==
    /\ pc[t] = "DoEmail"
    /\ email' = [email EXCEPT ![t] =
                   [From |-> conf.EmailFrom, To |-> notif[t].Email,
                    Cc |-> <<>>, Bcc |-> <<>>]]
    /\ args' = [args EXCEPT ![t] = [username |-> conf.SMTPUsername,
                                    password |-> conf.SMTPPassword]]
    /\ pc' = [pc EXCEPT ![t] = "Send"]
    /\ UNCHANGED <<chanVars, conf, notif, calls, launched, sess, result, counters, outcome>>

\* the goroutine ends: its locals are gone; the counters and the log line,
\* which names the error on a failure, stay
Finish(t, metric, line) ==
    /\ counters' = CollectAdd(counters, metric, 1)
    /\ outcome' = [outcome EXCEPT ![t] = line]
    /\ pc' = [pc EXCEPT ![t] = "Done"]
    /\ sess' = [sess EXCEPT ![t] = NoSession]
    /\ UNCHANGED <<chanVars, conf, notif, calls, launched, email, args, result>>

\* faulty variant: email.sent is incremented on both branches
DoEmailDoneAlwaysSent(t) ==
    /\ pc[t] = "Returned"
    /\ Finish(t, "email.sent", IF result[t] # "nil" THEN "failed" ELSE "sent")

\* faulty variant: the failure branch only logs
DoEmailDoneFailureUncounted(t) ==
    /\ pc[t] = "Returned"
    /\ IF result[t] # "nil"
       THEN /\ outcome' = [outcome EXCEPT ![t] = "failed"]
            /\ pc' = [pc EXCEPT ![t] = "Done"]
            /\ sess' = [sess EXCEPT ![t] = NoSession]
            /\ UNCHANGED <<chanVars, conf, notif, calls, launched, email, args,
                           counters, result>>
       ELSE Finish(t, "email.sent", "sent")

\* DoEmail after Send returned: count and log the failure, or the success
DoEmailDone(t) ==
    /\ pc[t] = "Returned"
    /\ IF result[t] # "nil"
       THEN Finish(t, "email.sent_failed", "failed")
       ELSE Finish(t, "email.sent", "sent")

\* ------------------------------------------ specification of the dispatcher

Confs ==
    {[EmailFrom |-> "", SMTPUsername |-> "", SMTPPassword |-> ""],
     [EmailFrom |-> "Bosun <a@x.com>", SMTPUsername |-> "u", SMTPPassword |-> "p"]}

\* targets of the email channel alone: without and with a recipient
Notifications ==
    {[NoNotification EXCEPT !.Email = em] : em \in {<<>>, <<"b@y.com">>}}

\* the configuration is loaded; Notify has not been called
InitNotify ==
    /\ conf \in Confs
    /\ \E n \in Notifications : notif = [k \in Tasks |-> n]
    /\ calls = 0
    /\ launched = [k \in Tasks |-> {}]
    /\ pc = [t \in Tasks |-> "idle"]
    /\ email = [t \in Tasks |-> NoEmail]
    /\ args = [t \in Tasks |-> NoArgs]
    /\ sess = [t \in Tasks |-> NoSession]
    /\ result = [t \in Tasks |-> "none"]
    /\ counters = [m \in Metrics |-> 0]
    /\ outcome = [t \in Tasks |-> "none"]
    /\ post = [k \in Tasks |-> NoPost]
    /\ get = [k \in Tasks |-> NoGet]
    /\ console = [k \in Tasks |-> NoPrint]

NextNotify ==
    \/ Notify
    \/ \E t \in Tasks :
        \/ DoEmail(t) \/ Send(t)
        \/ Dial(t) \/ Hello(t) \/ Extension(t) \/ StartTLS(t) \/ Auth(t)
        \/ Mail(t) \/ Rcpt(t) \/ Data(t) \/ Write(t) \/ WClose(t) \/ Quit(t)
        \/ Close(t)
        \/ DoEmailDone(t)

SpecNotify == InitNotify /\ [][NextNotify]_vars

\* ------------------------------------------------ DoPost, DoGet, DoPrint

\* the templates n.Body of the model: the context itself, the context after
\* a fixed text, and a field that only the incident has
Templates == {"{{.}}", "alert: {{.}}", "{{.Subject}}"}

\* the response codes of the model; 0 is no response (the request failed)
Statuses == {200, 299, 300, 404}

\* GetPayload: the body if n.UseBody, else the subject
GetPayload(n, subject, body) == IF n.UseBody THEN body ELSE subject

\* faulty variant: the two contexts swapped
PostContextSwapped(n, st, payload) ==
    IF ~n.UseFullContext THEN [kind |-> "incident", st |-> <<st>>, str |-> ""]
                         ELSE [kind |-> "string", st |-> <<>>, str |-> payload]

\* DoPost: context = st if n.UseFullContext, else string(payload)
PostContext(n, st, payload) ==
    IF n.UseFullContext THEN [kind |-> "incident", st |-> <<st>>, str |-> ""]
                        ELSE [kind |-> "string", st |-> <<>>, str |-> payload]

\* n.Body.Execute(buf, context): the text written to buf, or an error when
\* the template names a field the context does not have
Execute(tmpl, context) ==
    LET dot == IF context.kind = "string" THEN context.str
               ELSE "{" \o context.st[1].Subject \o " " \o context.st[1].Body
                        \o " " \o context.st[1].AlertKey \o "}"
    IN  CASE tmpl = "{{.}}" -> [err |-> "nil", out |-> dot]
          [] tmpl = "alert: {{.}}" -> [err |-> "nil", out |-> "alert: " \o dot]
          [] tmpl = "{{.Subject}}" ->
                IF context.kind = "incident"
                THEN [err |-> "nil", out |-> context.st[1].Subject]
                ELSE [err |-> "ErrExecute", out |-> ""]

\* >= 300 is a bad response
BadStatus(code) == code >= 300

\* the DoPost goroutine of call k becomes p; it touches nothing else
PostStep(k, p) ==
    /\ post' = [post EXCEPT ![k] = p]
    /\ UNCHANGED <<conf, notif, calls, launched, pc, email, args, sess, result,
                   counters, outcome, get, console>>

\* http.Post(n.Post.String(), n.ContentType, bytes.NewBuffer(payload)) is
\* issued and waits for the response
IssuePost(k, payload) ==
    PostStep(k, [post[k] EXCEPT !.pc = "Posting",
                                !.request = <<[contentType |-> notif[k].ContentType,
                                               payload |-> payload]>>])

\* faulty variant: the Execute error is logged and the request goes out
DoPostIgnoreExecuteError(k) ==
    /\ post[k].pc = "DoPost"
    /\ LET n == notif[k]
           payload == GetPayload(n, St.Subject, St.Body)
       IN  IF n.Body # "nil"
           THEN LET r == Execute(n.Body, PostContext(n, St, payload))
                IN  PostStep(k, [post[k] EXCEPT
                                   !.pc = "Posting", !.execErr = r.err,
                                   !.log = IF r.err # "nil" THEN "template error"
                                                            ELSE "none",
                                   !.request = <<[contentType |-> n.ContentType,
                                                  payload |-> r.out]>>])
           ELSE IssuePost(k, payload)

\* DoPost up to http.Post: choose the payload, render the template if there
\* is one (an Execute error is logged and ends the goroutine), issue the
\* request
DoPost(k) ==
    /\ post[k].pc = "DoPost"
    /\ LET n == notif[k]
           payload == GetPayload(n, St.Subject, St.Body)
       IN  IF n.Body # "nil"
           THEN LET r == Execute(n.Body, PostContext(n, St, payload))
                IN  IF r.err # "nil"
                    THEN PostStep(k, [post[k] EXCEPT !.pc = "Done",
                                                     !.execErr = r.err,
                                                     !.log = "template error"])
                    ELSE PostStep(k, [post[k] EXCEPT
                                        !.pc = "Posting", !.execErr = "nil",
                                        !.request = <<[contentType |-> n.ContentType,
                                                       payload |-> r.out]>>])
           ELSE IssuePost(k, payload)

\* faulty variant: a bad response is also counted as a failed email
PostResponseCountsFailure(k) ==
    /\ post[k].pc = "Posting"
    /\ \E code \in Statuses \cup {0} :
         /\ post' = [post EXCEPT ![k] =
                       [@ EXCEPT !.pc = "Done", !.status = code,
                                 !.log = IF code = 0 THEN "post error"
                                         ELSE IF BadStatus(code) THEN "bad response"
                                         ELSE "successful"]]
         /\ counters' = IF code # 0 /\ BadStatus(code)
                        THEN CollectAdd(counters, "email.sent_failed", 1)
                        ELSE counters
    /\ UNCHANGED <<conf, notif, calls, launched, pc, email, args, sess, result,
                   outcome, get, console>>

\* DoPost after http.Post returned: an error, a bad response or a success
\* is logged and the goroutine ends
PostResponse(k) ==
    /\ post[k].pc = "Posting"
    /\ \E code \in Statuses \cup {0} :
         PostStep(k, [post[k] EXCEPT
                        !.pc = "Done", !.status = code,
                        !.log = IF code = 0 THEN "post error"
                                ELSE IF BadStatus(code) THEN "bad response"
                                ELSE "successful"])

\* the DoGet goroutine of call k becomes g; it touches nothing else
GetStep(k, g) ==
    /\ get' = [get EXCEPT ![k] = g]
    /\ UNCHANGED <<conf, notif, calls, launched, pc, email, args, sess, result,
                   counters, outcome, post, console>>

\* DoGet: http.Get(n.Get.String()) is issued and waits for the response
DoGet(k) ==
    /\ get[k].pc = "DoGet"
    /\ GetStep(k, [get[k] EXCEPT !.pc = "Getting", !.requests = @ + 1])

\* DoGet after http.Get returned
GetResponse(k) ==
    /\ get[k].pc = "Getting"
    /\ \E code \in Statuses \cup {0} :
         GetStep(k, [get[k] EXCEPT
                       !.pc = "Done",
                       !.log = IF code = 0 THEN "get error"
                               ELSE IF BadStatus(code) THEN "bad response"
                               ELSE "successful"])

\* DoPrint: slog.Infoln(payload)
DoPrint(k) ==
    /\ console[k].pc = "DoPrint"
    /\ console' = [console EXCEPT ![k] = [@ EXCEPT !.pc = "Done",
                                                   !.line = console[k].payload]]
    /\ UNCHANGED <<conf, notif, calls, launched, pc, email, args, sess, result,
                   counters, outcome, post, get>>

\* ------------------------------------------- specification of one DoPost

PostTargets ==
    {[NoNotification EXCEPT !.Post = TRUE, !.UseBody = ub, !.UseFullContext = fc,
                            !.Body = b, !.ContentType = ct] :
        ub \in BOOLEAN, fc \in BOOLEAN, b \in Templates \cup {"nil"},
        ct \in {"application/json", "text/plain"}}

\* every Notify call has been made: the first on a target with a POST
\* endpoint, whose DoPost goroutine is starting, the others on targets with
\* no channel
InitPost ==
    /\ conf = NoConf
    /\ \E n \in PostTargets :
         notif = [k \in Tasks |-> IF k = 1 THEN n ELSE NoNotification]
    /\ calls = MaxNotify
    /\ launched = [k \in Tasks |-> IF k = 1 THEN {"post"} ELSE {}]
    /\ pc = [t \in Tasks |-> "idle"]
    /\ email = [t \in Tasks |-> NoEmail]
    /\ args = [t \in Tasks |-> NoArgs]
    /\ sess = [t \in Tasks |-> NoSession]
    /\ result = [t \in Tasks |-> "none"]
    /\ counters = [m \in Metrics |-> 0]
    /\ outcome = [t \in Tasks |-> "none"]
    /\ post = [k \in Tasks |-> IF k = 1 THEN [NoPost EXCEPT !.pc = "DoPost"]
                                        ELSE NoPost]
    /\ get = [k \in Tasks |-> NoGet]
    /\ console = [k \in Tasks |-> NoPrint]

NextPost == \E k \in Tasks : DoPost(k) \/ PostResponse(k)

SpecPost == InitPost /\ [][NextPost]_vars

\* ------------------------------------ specification of the whole fan-out

\* the target of an incident that is reported by GET alone
GetOnly == [NoNotification EXCEPT !.Get = TRUE]

\* every combination of channels, printing the subject or subject and body
FanoutTargets ==
    {[NoNotification EXCEPT !.Email = em, !.Post = p, !.Get = g,
                            !.PrintFlag = pr, !.UseBody = ub] :
        em \in {<<>>, <<"b@y.com">>}, p \in BOOLEAN, g \in BOOLEAN,
        pr \in BOOLEAN, ub \in BOOLEAN}

\* the configuration is loaded; the incidents before the last are reported
\* by GET alone, the last one on any combination of channels
InitFanout ==
    /\ conf \in Confs
    /\ \E n \in FanoutTargets :
         notif = [k \in Tasks |-> IF k = MaxNotify THEN n ELSE GetOnly]
    /\ calls = 0
    /\ launched = [k \in Tasks |-> {}]
    /\ pc = [t \in Tasks |-> "idle"]
    /\ email = [t \in Tasks |-> NoEmail]
    /\ args = [t \in Tasks |-> NoArgs]
    /\ sess = [t \in Tasks |-> NoSession]
    /\ result = [t \in Tasks |-> "none"]
    /\ counters = [m \in Metrics |-> 0]
    /\ outcome = [t \in Tasks |-> "none"]
    /\ post = [k \in Tasks |-> NoPost]
    /\ get = [k \in Tasks |-> NoGet]
    /\ console = [k \in Tasks |-> NoPrint]

NextFanout ==
    \/ Notify
    \/ \E t \in Tasks :
        \/ DoEmail(t) \/ Send(t)
        \/ Dial(t) \/ Hello(t) \/ Extension(t) \/ StartTLS(t) \/ Auth(t)
        \/ Mail(t) \/ Rcpt(t) \/ Data(t) \/ Write(t) \/ WClose(t) \/ Quit(t)
        \/ Close(t)
        \/ DoEmailDone(t)
        \/ DoPost(t) \/ PostResponse(t)
        \/ DoGet(t) \/ GetResponse(t)
        \/ DoPrint(t)

SpecFanout == InitFanout /\ [][NextFanout]_vars

\* ------------------------------------------------------------- properties

\* positions in trace tr of the calls named op
Idx(tr, op) == {i \in DOMAIN tr : tr[i].op = op}

\* SendMail has returned in task t after Dial succeeded
ReturnedDialed(t) == pc[t] = "Returned" /\ sess[t].dialed

\* C1: whenever SendMail returns after Dial succeeded, the connection is
\* closed, whichever step failed or if none failed.
C1_ClosedOnEveryExit ==
    \A t \in Tasks : ReturnedDialed(t) => ~sess[t].connOpen

\* C1 witness: SendMail returned after a partial protocol failure (a
\* recipient was rejected) and after a full success
C1_Witness ==
    \E t \in Tasks :
        /\ ReturnedDialed(t) /\ result[t] = "ErrRcpt" /\ ~sess[t].connOpen
        /\ Idx(sess[t].trace, "Close") # {}

\* C2 as stated: whenever SendMail returns after Dial succeeded, exactly one
\* close of the connection has been performed.
C2_ExactlyOneClose ==
    \A t \in Tasks : ReturnedDialed(t) => sess[t].closes = 1

\* C2 amended: whenever SendMail returns after Dial succeeded, its deferred
\* Close ran exactly once and the connection is closed; the connection saw
\* one close, plus one when Quit was accepted and plus one when the
\* authentication failed, the library having closed it already in both cases.
C2_DeferredCloseOnce ==
    \A t \in Tasks :
        ReturnedDialed(t) =>
            LET s == sess[t]
                quitOk == \E i \in Idx(s.trace, "Quit") : s.trace[i].ok
                authFailed == \E i \in Idx(s.trace, "Auth") : ~s.trace[i].ok
            IN  /\ Cardinality(Idx(s.trace, "Close")) = 1
                /\ s.trace[Len(s.trace)].op = "Close"
                /\ ~s.connOpen
                /\ s.closes = 1 + (IF quitOk THEN 1 ELSE 0)
                                + (IF authFailed THEN 1 ELSE 0)
                /\ s.closes \in {1, 2}

\* C2 witness: the path on which every step succeeded and Quit was issued
C2_Witness ==
    \E t \in Tasks :
        /\ ReturnedDialed(t) /\ result[t] = "nil"
        /\ sess[t].closes = 2 /\ ~sess[t].connOpen

\* C3: a message whose sender is empty or whose merged recipient list is
\* empty never gets past Send: no call is made on the smtp package (Dial is
\* never invoked) and what Send returns is the validation error.
C3_ValidationBeforeDial ==
    \A t \in Tasks :
        LET e == email[t]
        IN  (e.From = "" \/ Len(e.To) + Len(e.Cc) + Len(e.Bcc) = 0) =>
                /\ sess[t].trace = <<>>
                /\ ~sess[t].dialed
                /\ pc[t] \in {"idle", "DoEmail", "Send", "Returned", "Done"}
                /\ pc[t] = "Returned" => result[t] = "ErrMissingFromOrTo"

\* C3 witness: Send returned for a message with recipients and no sender
C3_Witness ==
    \E t \in Tasks :
        /\ pc[t] = "Returned" /\ email[t].From = "" /\ Len(email[t].To) > 0
        /\ result[t] = "ErrMissingFromOrTo"

\* C4: in a session in which the relay does not advertise STARTTLS, no
\* authentication is attempted, whatever the username and password.
C4_NoAuthWithoutStartTLS ==
    \A t \in Tasks :
        sess[t].starttls = "no" =>
            /\ Idx(sess[t].trace, "Auth") = {}
            /\ sess[t].auth = "none"
            /\ pc[t] # "Auth"
            /\ ~sess[t].tls

\* C4 witness: a send without STARTTLS ran to the end with both a username
\* and a password configured
C4_Witness ==
    \E t \in Tasks :
        /\ pc[t] = "Returned" /\ result[t] = "nil"
        /\ sess[t].starttls = "no"
        /\ args[t].username # "" /\ args[t].password # ""

\* C5: authentication is attempted at most once; once the TLS upgrade has
\* succeeded with a username or a password given it is attempted exactly
\* once, directly after the successful StartTLS and before Mail; with both
\* empty it is never attempted.
C5_AuthOnceAfterTLS ==
    \A t \in Tasks :
        LET s == sess[t]
            A == Idx(s.trace, "Auth")
            given == args[t].username # "" \/ args[t].password # ""
        IN  /\ Cardinality(A) <= 1
            /\ ~given => (A = {} /\ pc[t] # "Auth")
            /\ (s.tls /\ given /\ pc[t] # "Auth") => Cardinality(A) = 1
            /\ \A i \in A :
                /\ i > 1
                /\ s.trace[i - 1].op = "StartTLS" /\ s.trace[i - 1].ok
                /\ \A j \in Idx(s.trace, "Mail") : j > i

\* C5 witness: a send over TLS with only a password given, authenticated
\* and carried on to the sender declaration
C5_Witness ==
    \E t \in Tasks :
        /\ sess[t].tls /\ args[t].username = "" /\ args[t].password = "p"
        /\ Idx(sess[t].trace, "Auth") # {} /\ Idx(sess[t].trace, "Mail") # {}
        /\ pc[t] = "Returned"

\* C6 as stated: a failed authentication is not fatal to the session: when
\* SendMail reaches the sender declaration after a failed authentication
\* the session is as usable as after a successful one (the connection is
\* open, so that Mail and the following steps can succeed).
C6_FailedAuthNotFatal ==
    \A t \in Tasks :
        (sess[t].auth = "failed" /\ pc[t] = "Mail") => sess[t].connOpen

\* C7: when the relay rejects a recipient, that Rcpt is the last call of
\* the session but for the deferred Close: no later recipient is declared,
\* Data is not entered, nothing is written, and SendMail returns the Rcpt
\* error with the connection closed.
C7_RcptRejectionAborts ==
    \A t \in Tasks :
        LET s == sess[t]
        IN  \A i \in Idx(s.trace, "Rcpt") :
                ~s.trace[i].ok =>
                    /\ \A j \in DOMAIN s.trace : j > i => s.trace[j].op = "Close"
                    /\ Idx(s.trace, "Data") = {} /\ Idx(s.trace, "Write") = {}
                    /\ s.written = <<>>
                    /\ pc[t] \in {"Close", "Returned"}
                    /\ pc[t] = "Returned" =>
                           (result[t] = "ErrRcpt" /\ ~s.connOpen)

\* C7 witness: three recipients, the first accepted, the second rejected
C7_Witness ==
    \E t \in Tasks :
        LET s == sess[t]
        IN  /\ pc[t] = "Returned" /\ Len(s.to) = 3 /\ s.next = 2
            /\ \E i \in Idx(s.trace, "Rcpt") :
                 /\ ~s.trace[i].ok /\ s.trace[i].arg = s.to[2]
                 /\ s.trace[i - 1].op = "Rcpt" /\ s.trace[i - 1].ok

\* the error value of each step of the session
StepError(op) ==
    CASE op = "Dial" -> "ErrDial"
      [] op = "Hello" -> "ErrHello"
      [] op = "StartTLS" -> "ErrStartTLS"
      [] op = "Mail" -> "ErrMail"
      [] op = "Rcpt" -> "ErrRcpt"
      [] op = "Data" -> "ErrData"
      [] op = "Write" -> "ErrWrite"
      [] op = "WClose" -> "ErrWClose"
      [] op = "Quit" -> "ErrQuit"

\* C8: when a step of the session (Dial, Hello, StartTLS, Mail, a Rcpt,
\* Data, Write, the data stream's Close, Quit) fails, no later step is
\* performed (only the deferred Close follows, and no Quit) and SendMail
\* returns that step's error.
C8_FirstErrorReturned ==
    \A t \in Tasks :
        LET s == sess[t]
        IN  \A i \in DOMAIN s.trace :
                (~s.trace[i].ok /\ s.trace[i].op \notin {"Auth", "Close"}) =>
                    /\ \A j \in DOMAIN s.trace : j > i => s.trace[j].op = "Close"
                    /\ pc[t] \in {"Close", "Returned"}
                    /\ pc[t] = "Close" => s.err = StepError(s.trace[i].op)
                    /\ pc[t] = "Returned" => result[t] = StepError(s.trace[i].op)

\* C8 witness: the write of the message failed after the data stream was
\* opened, and SendMail returned
C8_Witness ==
    \E t \in Tasks :
        /\ pc[t] = "Returned" /\ result[t] = "ErrWrite"
        /\ \E i \in Idx(sess[t].trace, "Write") : ~sess[t].trace[i].ok
        /\ Idx(sess[t].trace, "Quit") = {}

\* task t ends in this step
Ends(t) == pc[t] = "Returned" /\ pc'[t] = "Done"

\* C9: the step that ends an email attempt adds exactly 1 to email.sent and
\* nothing to email.sent_failed when Send returned nil, and exactly 1 to
\* email.sent_failed and nothing to email.sent when Send returned an error;
\* no other step changes a counter, so no counter ever decreases.
C9_OneCounterPerAttempt ==
    [][ /\ \A t \in Tasks :
             Ends(t) =>
                 LET hit == IF result[t] = "nil" THEN "email.sent"
                                                 ELSE "email.sent_failed"
                 IN  \A m \in Metrics :
                         counters'[m] = counters[m] + (IF m = hit THEN 1 ELSE 0)
        /\ (\A t \in Tasks : ~Ends(t)) => counters' = counters
        /\ \A m \in Metrics : counters'[m] >= counters[m] ]_vars

\* C9 witness: one attempt has ended in failure and is counted as failed
C9_Witness ==
    \E t \in Tasks :
        /\ pc[t] = "Done" /\ outcome[t] = "failed"
        /\ counters["email.sent_failed"] = 1 /\ counters["email.sent"] = 0

InSendMail(t) ==
    pc[t] \in {"Dial", "Hello", "Extension", "StartTLS", "Auth", "Mail",
               "Rcpt", "Data", "Write", "WClose", "Quit", "Close"}
        \/ sess[t].trace # <<>>

WellFormed == {"Bosun <a@x.com>", "a@x.com", "b@y.com"}

\* C15 as stated: when the sender or any recipient of a message is not
\* mail-address syntax, no call is made on the smtp package (no connection
\* is opened) and Send returns an error.
C15_MalformedAddressNoDial ==
    \A t \in Tasks :
        LET e == email[t]
            rcpts == {e.To[i] : i \in DOMAIN e.To} \cup {e.Cc[i] : i \in DOMAIN e.Cc}
                        \cup {e.Bcc[i] : i \in DOMAIN e.Bcc}
        IN  (e.From \notin WellFormed \/ rcpts \ WellFormed # {}) =>
                /\ sess[t].trace = <<>>
                /\ pc[t] \in {"idle", "DoEmail", "Send", "Returned", "Done"}

\* the order of the steps of a session: v tells whether StartTLS and Auth
\* are part of it, n is the number of recipients
StepOrder(v, n) ==
    <<"Dial", "Hello">>
        \o (CASE v = "plain" -> <<>>
              [] v = "tls" -> <<"StartTLS">>
              [] v = "tlsauth" -> <<"StartTLS", "Auth">>)
        \o <<"Mail">> \o [i \in 1..n |-> "Rcpt"]
        \o <<"Data", "Write", "WClose", "Quit">>

\* C16: the calls of a session, the deferred Close left aside, are a prefix
\* of Dial, Hello, [StartTLS, [Auth]], Mail, one Rcpt per recipient, Data,
\* Write, the data stream's Close, Quit; each call but the last (and Auth)
\* succeeded, so Data follows the acceptance of every recipient and Quit the
\* successful close of the data stream; the deferred Close, if any, is last.
C16_StepsInFixedOrder ==
    \A t \in Tasks :
        LET s == sess[t]
            tr == s.trace
            n == IF tr # <<>> /\ tr[Len(tr)].op = "Close"
                 THEN Len(tr) - 1 ELSE Len(tr)
        IN  /\ \E v \in {"plain", "tls", "tlsauth"} :
                 LET order == StepOrder(v, Len(s.to))
                 IN  /\ n <= Len(order)
                     /\ \A i \in 1..n : tr[i].op = order[i]
            /\ \A i \in 1..n : (i < n /\ tr[i].op # "Auth") => tr[i].ok
            /\ \A i \in Idx(tr, "Data") :
                 Cardinality({j \in Idx(tr, "Rcpt") : j < i /\ tr[j].ok})
                     = Len(s.to)
            /\ \A i \in Idx(tr, "Quit") :
                 tr[i - 1].op = "WClose" /\ tr[i - 1].ok

\* C16 witness: a complete session with TLS, authentication and three
\* recipients, ended by Quit
C16_Witness ==
    \E t \in Tasks :
        /\ pc[t] = "Returned" /\ result[t] = "nil"
        /\ sess[t].auth = "ok" /\ Len(sess[t].to) = 3
        /\ Len(sess[t].trace) = Len(StepOrder("tlsauth", 3)) + 1

\* C19: the step that ends an email attempt raises email.sent only when
\* Quit and every step before it returned no error; an attempt whose data
\* stream was closed successfully and whose Quit failed has ErrQuit as the
\* result of SendMail and raises email.sent_failed, not email.sent.
C19_SentOnlyAfterQuit ==
    [][ \A t \in Tasks :
          Ends(t) =>
              LET tr == sess[t].trace
                  quitOk == \E i \in Idx(tr, "Quit") : tr[i].ok
                  quitFailed == \E i \in Idx(tr, "Quit") : ~tr[i].ok
                  transferred == \E i \in Idx(tr, "WClose") : tr[i].ok
              IN  /\ counters'["email.sent"] > counters["email.sent"] =>
                         /\ quitOk
                         /\ \A i \in DOMAIN tr : tr[i].op # "Close" => tr[i].ok
                  /\ (transferred /\ quitFailed) =>
                         /\ result[t] = "ErrQuit"
                         /\ counters'["email.sent"] = counters["email.sent"]
                         /\ counters'["email.sent_failed"] =
                                counters["email.sent_failed"] + 1 ]_vars

\* C19 witness: an attempt ended whose only failure was Quit, counted as
\* failed
C19_Witness ==
    \E t \in Tasks :
        /\ pc[t] = "Done" /\ result[t] = "ErrQuit" /\ outcome[t] = "failed"
        /\ counters["email.sent_failed"] = 1 /\ counters["email.sent"] = 0

\* one step of the email goroutine of call t
EmailStep(t) ==
    \/ DoEmail(t) \/ Send(t)
    \/ Dial(t) \/ Hello(t) \/ Extension(t) \/ StartTLS(t) \/ Auth(t)
    \/ Mail(t) \/ Rcpt(t) \/ Data(t) \/ Write(t) \/ WClose(t) \/ Quit(t)
    \/ Close(t)
    \/ DoEmailDone(t)

\* C11: Notify waits for no goroutine and no goroutine waits for another.
\* Whatever the other goroutines are doing, and wherever one of them has
\* stopped, the next call of Notify can be made and return, and every
\* goroutine that has been started and has not ended can take its own next
\* step: a goroutine that never moves again keeps nothing else from running
\* to completion.
C11_NothingWaits ==
    /\ calls < MaxNotify => ENABLED Notify
    /\ \A k \in Tasks :
         /\ pc[k] \notin {"idle", "Done"} => ENABLED EmailStep(k)
         /\ post[k].pc \notin {"none", "Done"} =>
                ENABLED (DoPost(k) \/ PostResponse(k))
         /\ get[k].pc \notin {"none", "Done"} =>
                ENABLED (DoGet(k) \/ GetResponse(k))
         /\ console[k].pc \notin {"none", "Done"} => ENABLED DoPrint(k)

\* C11 witness: the email goroutine of the last incident is still in the
\* TLS handshake when every call of Notify has returned and the POST, GET
\* and print goroutines of the same incident and the GET goroutine of the
\* first incident have ended
C11_Witness ==
    /\ calls = MaxNotify
    /\ pc[MaxNotify] = "StartTLS"
    /\ post[MaxNotify].pc = "Done"
    /\ get[MaxNotify].pc = "Done"
    /\ console[MaxNotify].pc = "Done"
    /\ get[1].pc = "Done"

\* C12: the step of DoPost that receives the response changes nothing but
\* the POST goroutine's own state: both email counters, the results and
\* outcomes of the email attempts and the calls of Notify (which returned
\* before the request was made and return no value) stay as they are; a
\* response with status 300 or higher is logged as a bad response.
C12_BadResponseOnlyLogged ==
    [][ \A k \in Tasks :
          (post[k].pc = "Posting" /\ post'[k] # post[k]) =>
              /\ counters' = counters
              /\ result' = result /\ outcome' = outcome
              /\ calls' = calls /\ launched' = launched /\ pc' = pc
              /\ post'[k].pc = "Done"
              /\ post'[k].status >= 300 => post'[k].log = "bad response"
              /\ post'[k].log = "successful" =>
                     post'[k].status \in 200..299 ]_vars

\* C12 witness: the POST of the last incident was answered 404 and logged
\* as a bad response, while the email of the same incident was sent and
\* counted once, and nothing was counted as failed
C12_Witness ==
    /\ post[MaxNotify].pc = "Done"
    /\ post[MaxNotify].status = 404
    /\ post[MaxNotify].log = "bad response"
    /\ pc[MaxNotify] = "Done"
    /\ counters["email.sent"] = 1
    /\ counters["email.sent_failed"] = 0

\* a request of DoPost on a target with a body template, UseBody and not
\* UseFullContext
TemplateOnBody(k) ==
    /\ notif[k].Body # "nil"
    /\ notif[k].UseBody
    /\ ~notif[k].UseFullContext
    /\ post[k].request # <<>>

\* C13 as stated: with a body template, useFullContext=false and
\* useBody=true, the payload that is sent equals the raw body of the
\* incident.
C13_PayloadIsRawBody ==
    \A k \in Tasks :
        TemplateOnBody(k) => post[k].request[1].payload = St.Body

\* C13: with a body template, useFullContext=false and useBody=true, the
\* payload that is sent is the output of the template executed on the raw
\* body string of the incident (never on the full incident); it equals the
\* raw body when the template is the context itself.
C13_PayloadIsTemplateOfBody ==
    \A k \in Tasks :
        TemplateOnBody(k) =>
            LET onBody == Execute(notif[k].Body,
                                  [kind |-> "string", st |-> <<>>, str |-> St.Body])
            IN  /\ onBody.err = "nil"
                /\ post[k].request[1].payload = onBody.out
                /\ notif[k].Body = "{{.}}" =>
                       post[k].request[1].payload = St.Body
                /\ notif[k].Body = "alert: {{.}}" =>
                       post[k].request[1].payload = "alert: body"

\* C13 witness: a request went out whose payload is the template's text
\* around the raw body
C13_Witness ==
    \E k \in Tasks :
        /\ TemplateOnBody(k)
        /\ notif[k].Body = "alert: {{.}}"
        /\ post[k].request[1].payload = "alert: body"
        /\ post[k].pc = "Done"

\* the goroutines of call k that have been started
Started(k) ==
    (IF pc[k] # "idle" THEN {"email"} ELSE {})
        \cup (IF post[k].pc # "none" THEN {"post"} ELSE {})
        \cup (IF get[k].pc # "none" THEN {"get"} ELSE {})
        \cup (IF console[k].pc # "none" THEN {"print"} ELSE {})

\* C17: a call of Notify that has been made has started the email goroutine
\* iff the target's Email list is not empty, the POST goroutine iff Post is
\* set, the GET goroutine iff Get is set and the print goroutine iff Print
\* is set, and a call that has not been made has started nothing; a
\* goroutine is started only by the step that is its call of Notify, so at
\* most once per channel and call.
C17_OneTaskPerConfiguredChannel ==
    /\ [](\A k \in Tasks :
            IF k <= calls
            THEN /\ ("email" \in Started(k)) <=> (Len(notif[k].Email) > 0)
                 /\ ("post" \in Started(k)) <=> notif[k].Post
                 /\ ("get" \in Started(k)) <=> notif[k].Get
                 /\ ("print" \in Started(k)) <=> notif[k].PrintFlag
                 /\ launched[k] = Started(k)
            ELSE Started(k) = {} /\ launched[k] = {})
    /\ [][ \A k \in Tasks :
             /\ launched'[k] # launched[k] =>
                    launched[k] = {} /\ calls = k - 1 /\ calls' = k
             /\ pc'[k] = "DoEmail" /\ pc[k] # "DoEmail" =>
                    pc[k] = "idle" /\ calls' = k /\ calls = k - 1
             /\ post'[k].pc = "DoPost" /\ post[k].pc # "DoPost" =>
                    post[k].pc = "none" /\ calls' = k /\ calls = k - 1
             /\ get'[k].pc = "DoGet" /\ get[k].pc # "DoGet" =>
                    get[k].pc = "none" /\ calls' = k /\ calls = k - 1
             /\ console'[k].pc = "DoPrint" /\ console[k].pc # "DoPrint" =>
                    console[k].pc = "none" /\ calls' = k /\ calls = k - 1 ]_vars

\* C17 witness: the last call was made on a target with recipients and a
\* POST endpoint and neither a GET endpoint nor the print flag, and started
\* the email and POST goroutines alone
C17_Witness ==
    /\ calls = MaxNotify
    /\ Len(notif[MaxNotify].Email) > 0 /\ notif[MaxNotify].Post
    /\ ~notif[MaxNotify].Get /\ ~notif[MaxNotify].PrintFlag
    /\ Started(MaxNotify) = {"email", "post"}

\* C18: when the execution of the body template fails, DoPost has logged
\* the error and ended, and no HTTP request has been issued: there is no
\* request and no response.
C18_TemplateErrorNoRequest ==
    \A k \in Tasks :
        post[k].execErr \notin {"none", "nil"} =>
            /\ post[k].request = <<>>
            /\ post[k].status = 0
            /\ post[k].pc = "Done"
            /\ post[k].log = "template error"

\* C18 witness: the template that names a field of the incident was
\* executed on the subject string, failed, and DoPost ended
C18_Witness ==
    \E k \in Tasks :
        /\ notif[k].Body = "{{.Subject}}" /\ ~notif[k].UseFullContext
        /\ post[k].execErr = "ErrExecute"
        /\ post[k].pc = "Done"
        /\ post[k].request = <<>>

====
